---- MODULE Spec2Model ----
(***************************************************************************)
(* Model of providers_script.py: the helper functions search_backend,      *)
(* get_backend_info, print_backend_info, get_gate_errors, create_options   *)
(* and the sequential script under `if __name__ == "__main__"`.            *)
(*                                                                         *)
(* Python values are encoded as follows.                                   *)
(*   - None (for references and for numeric attributes) is the integer -1. *)
(*   - A backend object lives in `heap`; a reference to it is its index.   *)
(*   - A dict is the sequence of its [key, val] items in insertion order.  *)
(*   - backend.target[gate][qbits] is either NoProps (Python None) or an   *)
(*     InstructionProperties pair <<duration, error>>.                     *)
(*   - Opaque SDK values (coupling map, noise model, ...) are integers     *)
(*     that differ per attribute and per backend.                          *)
(***************************************************************************)
EXTENDS Integers, Sequences, FiniteSets, TLC

None == -1

\* ------------------------------------------------------------------------
\* Bounds of the model
\* ------------------------------------------------------------------------
MaxBackends == 3
MaxTargetEntries == 3

\* Program constant (line 240)
nb_shots == 1024

BackendNames == {"fake_melbourne", "fake_armonk", "fake_manila"}
GateNames == {"cx", "x"}
QargKeys == {<<0>>, <<1>>, <<0, 1>>}
ShotCounts == {1, nb_shots}

\* ------------------------------------------------------------------------
\* Python dict as a sequence of items
\* ------------------------------------------------------------------------
DictKeys(d) == [i \in 1..Len(d) |-> d[i].key]

DictHas(d, k) == \E i \in 1..Len(d) : d[i].key = k

DictGet(d, k) == d[CHOOSE i \in 1..Len(d) : d[i].key = k].val

DictSet(d, k, v) ==
    IF DictHas(d, k)
    THEN [i \in 1..Len(d) |-> IF d[i].key = k THEN [key |-> k, val |-> v] ELSE d[i]]
    ELSE Append(d, [key |-> k, val |-> v])

\* ------------------------------------------------------------------------
\* SDK objects
\* ------------------------------------------------------------------------
NoProps == <<>>
InstructionProperties(duration, error) == <<duration, error>>
Duration(props) == props[1]
Error(props) == props[2]

PropsValues ==
    {NoProps, InstructionProperties(5, 7), InstructionProperties(5, None)}

MkBackend(id, name, coupling_map, target) ==
    [ name                      |-> name,
      backend_version           |-> 10 + id,
      online_date               |-> 20 + id,
      dt                        |-> 30 + id,
      dtm                       |-> 40 + id,
      max_circuits              |-> 50 + id,
      num_qubits                |-> 60 + id,
      coupling_map              |-> coupling_map,
      operation_names           |-> 80 + id,
      instruction_durations     |-> 90 + id,
      instruction_schedule_map  |-> 100 + id,
      target                    |-> target ]

NoiseModel_from_backend(backend) == 200 + backend.backend_version

Options ==
    [ execution          |-> [shots |-> 4000],
      optimization_level |-> None,
      resilience_level   |-> None,
      simulator          |-> [noise_model |-> None,
                              basis_gates |-> None,
                              coupling_map |-> None] ]

\* backend.coupling_map: a CouplingMap object, or None when the backend has none.
PyStr(v) == IF v = None THEN "None" ELSE ToString(v)
PyStrQubits(qbits) == ToString(qbits)

\* ------------------------------------------------------------------------
\* Input domains
\* ------------------------------------------------------------------------
QargMaps(n) ==
    { m \in [1..n -> [key : QargKeys, val : PropsValues]] :
        \A i, j \in 1..n : m[i].key = m[j].key => i = j }

GateMaps == UNION { QargMaps(n) : n \in 0..Cardinality(QargKeys) }

GateOrders ==
    UNION { { g \in [1..n -> GateNames] : \A i, j \in 1..n : g[i] = g[j] => i = j }
            : n \in 0..Cardinality(GateNames) }

RECURSIVE SumLen(_, _)
SumLen(t, i) == IF i > Len(t) THEN 0 ELSE Len(t[i].val) + SumLen(t, i + 1)

TargetsOver(g) ==
    { t \in [1..Len(g) -> [key : GateNames, val : GateMaps]] :
        /\ \A i \in 1..Len(g) : t[i].key = g[i]
        /\ SumLen(t, 1) <= MaxTargetEntries }

Targets == UNION { TargetsOver(g) : g \in GateOrders }

DefaultTarget ==
    << [key |-> "x",  val |-> << [key |-> <<0>>, val |-> InstructionProperties(5, 7)] >>],
       [key |-> "cx", val |-> << [key |-> <<0, 1>>, val |-> NoProps] >>] >>

\* ------------------------------------------------------------------------
\* search_backend
\* ------------------------------------------------------------------------
RECURSIVE search_backend_loop(_, _, _, _, _)
search_backend_loop(h, backends, i, searched_backend_name, acc) ==
    IF i > Len(backends) THEN acc
    ELSE LET backend == backends[i]
             found == IF h[backend].name = searched_backend_name
                      THEN backend
                      ELSE acc.searched_backend
         IN search_backend_loop(h, backends, i + 1, searched_backend_name,
                [searched_backend |-> found,
                 examined |-> Append(acc.examined, backend)])

RECURSIVE search_backend_loop_break(_, _, _, _, _)
search_backend_loop_break(h, backends, i, searched_backend_name, acc) ==
    IF i > Len(backends) THEN acc
    ELSE LET backend == backends[i]
             next == [searched_backend |-> backend,
                      examined |-> Append(acc.examined, backend)]
         IN IF h[backend].name = searched_backend_name
            THEN next
            ELSE search_backend_loop_break(h, backends, i + 1, searched_backend_name,
                     [acc EXCEPT !.examined = Append(acc.examined, backend)])

search_backend_first_match(h, prov, searched_backend_name) ==
    search_backend_loop_break(h, prov, 1, searched_backend_name,
        [searched_backend |-> None, examined |-> <<>>])

search_backend_ignores_name(h, prov, searched_backend_name) ==
    [searched_backend |-> IF Len(prov) = 0 THEN None ELSE prov[Len(prov)],
     examined |-> prov]

search_backend_run(h, prov, searched_backend_name) ==
    search_backend_loop(h, prov, 1, searched_backend_name,
        [searched_backend |-> None, examined |-> <<>>])

search_backend(h, prov, searched_backend_name) ==
    search_backend_run(h, prov, searched_backend_name).searched_backend

\* ------------------------------------------------------------------------
\* get_backend_info
\* ------------------------------------------------------------------------
BackendInfoOf(backend) ==
    [ name                                |-> backend.name,
      version                             |-> backend.backend_version,
      online_date                         |-> backend.online_date,
      syst_time_resolution_input_signals  |-> backend.dt,
      syst_time_resolution_output_signals |-> backend.dtm,
      max_circuits_per_job                |-> backend.max_circuits,
      num_qubits                          |-> backend.num_qubits,
      coupling_map                        |-> backend.coupling_map,
      operation_names                     |-> backend.operation_names,
      instruction_durations               |-> backend.instruction_durations,
      instruction_schedule_map            |-> backend.instruction_schedule_map,
      target                              |-> backend.target ]

EmptyInfo ==
    [ name                                |-> "None",
      version                             |-> None,
      online_date                         |-> None,
      syst_time_resolution_input_signals  |-> None,
      syst_time_resolution_output_signals |-> None,
      max_circuits_per_job                |-> None,
      num_qubits                          |-> None,
      coupling_map                        |-> None,
      operation_names                     |-> None,
      instruction_durations               |-> None,
      instruction_schedule_map            |-> None,
      target                              |-> <<>> ]

get_backend_info_swapped(h, backend) ==
    IF backend = None
    THEN [raised |-> TRUE, value |-> EmptyInfo]
    ELSE [raised |-> FALSE,
          value  |-> [BackendInfoOf(h[backend]) EXCEPT
                        !.syst_time_resolution_input_signals = h[backend].dtm,
                        !.syst_time_resolution_output_signals = h[backend].dt]]

get_backend_info_tolerant(h, backend) ==
    IF backend = None
    THEN [raised |-> FALSE, value |-> EmptyInfo]
    ELSE [raised |-> FALSE, value |-> BackendInfoOf(h[backend])]

get_backend_info(h, backend) ==
    IF backend = None
    THEN [raised |-> TRUE, value |-> EmptyInfo]
    ELSE [raised |-> FALSE, value |-> BackendInfoOf(h[backend])]

\* ------------------------------------------------------------------------
\* print_backend_info: the lines written to standard output, each line the
\* sequence of its printed pieces, and the exception raised, "" when none.
\* coupling_map.draw() (line 96) returns a drawing that is discarded and
\* writes nothing.
\* ------------------------------------------------------------------------
QubitsLine_swapped(qbits, props) ==
    IF props # NoProps /\ props # NoProps
    THEN << "\t\tQubit(s) ", PyStrQubits(qbits),
            ": duration=", PyStr(Error(props)),
            ", error=", PyStr(Duration(props)) >>
    ELSE << "\t\tQubit(s) ", PyStrQubits(qbits),
            ": duration=", "None", ", error=", "None" >>

QubitsLine(qbits, props) ==
    IF props # NoProps /\ props # NoProps
    THEN << "\t\tQubit(s) ", PyStrQubits(qbits),
            ": duration=", PyStr(Duration(props)),
            ", error=", PyStr(Error(props)) >>
    ELSE << "\t\tQubit(s) ", PyStrQubits(qbits),
            ": duration=", "None", ", error=", "None" >>

RECURSIVE print_qbits_loop(_, _, _)
print_qbits_loop(gate_map, i, out) ==
    IF i > Len(gate_map) THEN out
    ELSE LET qbits == DictKeys(gate_map)[i]
         IN print_qbits_loop(gate_map, i + 1,
                Append(out, QubitsLine(qbits, DictGet(gate_map, qbits))))

RECURSIVE print_target_loop(_, _, _)
print_target_loop(target, i, out) ==
    IF i > Len(target) THEN out
    ELSE LET gate == DictKeys(target)[i]
         IN print_target_loop(target, i + 1,
                print_qbits_loop(DictGet(target, gate), 1,
                    Append(out, << "\t", gate >>)))

\* Lines 85-95, printed before coupling_map.draw() is called.
PrintedBeforeDraw(backend_info) ==
    << << "Name: ", backend_info.name >>,
       << "Version: ", PyStr(backend_info.version) >>,
       << "Online date: ", PyStr(backend_info.online_date) >>,
       << "Max circuits per job: ", PyStr(backend_info.max_circuits_per_job) >>,
       << "Number of qubits: ", PyStr(backend_info.num_qubits) >>,
       << "System time resolution:" >>,
       << "\tInput signals: ",
          PyStr(backend_info.syst_time_resolution_input_signals) >>,
       << "\tOutput signals: ",
          PyStr(backend_info.syst_time_resolution_output_signals) >>,
       << "Coupling map:" >> >>

\* draw_raises: whether the SDK's coupling_map.draw() raises.  On a None
\* coupling map the attribute read itself raises AttributeError.
print_backend_info(backend_info, draw_raises) ==
    IF backend_info.coupling_map = None
    THEN [lines |-> PrintedBeforeDraw(backend_info), raised |-> "AttributeError"]
    ELSE IF draw_raises
    THEN [lines |-> PrintedBeforeDraw(backend_info), raised |-> "SDKError"]
    ELSE [lines |->
            print_target_loop(backend_info.target, 1,
                PrintedBeforeDraw(backend_info)
                    \o << << "Operations names: ", PyStr(backend_info.operation_names) >>,
                          << "Target:" >> >>),
          raised |-> ""]

\* ------------------------------------------------------------------------
\* get_gate_errors
\* ------------------------------------------------------------------------
GateError_duration(props) ==
    IF props # NoProps /\ props # NoProps THEN Duration(props) ELSE None

GateError(props) ==
    IF props # NoProps /\ props # NoProps THEN Error(props) ELSE None

RECURSIVE gate_errors_qbits_loop(_, _, _)
gate_errors_qbits_loop(gate_map, i, acc) ==
    IF i > Len(gate_map) THEN acc
    ELSE LET qbits == DictKeys(gate_map)[i]
         IN gate_errors_qbits_loop(gate_map, i + 1,
                DictSet(acc, qbits, GateError(DictGet(gate_map, qbits))))

RECURSIVE gate_errors_loop(_, _, _)
gate_errors_loop(target, i, gate_errors) ==
    IF i > Len(target) THEN gate_errors
    ELSE LET gate == DictKeys(target)[i]
         IN gate_errors_loop(target, i + 1,
                DictSet(gate_errors, gate,
                    gate_errors_qbits_loop(DictGet(target, gate), 1, <<>>)))

get_gate_errors(h, backend) == gate_errors_loop(h[backend].target, 1, <<>>)

\* ------------------------------------------------------------------------
\* create_options
\* ------------------------------------------------------------------------
create_options_always_noisy(h, shots, backend) ==
    LET base == [Options EXCEPT !.execution.shots = shots,
                                !.optimization_level = 0,
                                !.resilience_level = 0]
    IN IF backend # None
       THEN [base EXCEPT !.simulator =
                [noise_model  |-> NoiseModel_from_backend(h[backend]),
                 basis_gates  |-> h[backend].operation_names,
                 coupling_map |-> h[backend].coupling_map]]
       ELSE [base EXCEPT !.simulator =
                [noise_model  |-> 0, basis_gates |-> 0, coupling_map |-> 0]]

create_options_noisy_levels(h, shots, backend) ==
    LET base == [Options EXCEPT !.execution.shots = shots,
                                !.optimization_level = 0,
                                !.resilience_level = 0]
    IN IF backend # None
       THEN [base EXCEPT !.resilience_level = 1,
                         !.simulator =
                [noise_model  |-> NoiseModel_from_backend(h[backend]),
                 basis_gates  |-> h[backend].operation_names,
                 coupling_map |-> h[backend].coupling_map]]
       ELSE base

create_options(h, shots, backend) ==
    LET base == [Options EXCEPT !.execution.shots = shots,
                                !.optimization_level = 0,
                                !.resilience_level = 0]
    IN IF backend # None
       THEN [base EXCEPT !.simulator =
                [noise_model  |-> NoiseModel_from_backend(h[backend]),
                 basis_gates  |-> h[backend].operation_names,
                 coupling_map |-> h[backend].coupling_map]]
       ELSE base

\* ------------------------------------------------------------------------
\* State
\* ------------------------------------------------------------------------
VARIABLES
    heap,                 \* backend objects, by reference
    provider,             \* what provider.backends() enumerates (references)
    fn, arg_name, arg_backend, arg_shots, ret,   \* one helper call and its result
    arg_draw_raises,      \* whether coupling_map.draw() raises in that call
    pc,                   \* next statement of the script, by source line
    fake_provider, fake_backends, fake_Melbourne, fake_Armonk,
    Melbourne_info, Armonk_info,
    qc, ibm_quantum_service, simulator,
    ideal_options, noisy_options,
    session, sampler, tqc, job, result,
    sessions,             \* state of the two Session objects
    submitted,            \* jobs received by the cloud service, in order
    stdout,               \* lines printed by the script
    error,                \* the uncaught exception, <<>> when none
    log                   \* statements executed so far

worldVars == <<heap, provider>>
callVars == <<fn, arg_name, arg_backend, arg_shots, arg_draw_raises, ret>>
scriptVars == <<pc, fake_provider, fake_backends, fake_Melbourne, fake_Armonk,
                Melbourne_info, Armonk_info, qc, ibm_quantum_service, simulator,
                ideal_options, noisy_options, session, sampler, tqc, job, result,
                sessions, submitted, stdout, error, log>>
vars == <<worldVars, callVars, scriptVars>>

Unbound == <<>>

ProviderWorlds ==
    UNION { { [heap |-> [i \in 1..k |->
                            MkBackend(i, names[i],
                                      IF has_map[i] THEN 70 + i ELSE None,
                                      DefaultTarget)],
               provider |-> [i \in 1..k |-> i]]
              : names \in [1..k -> BackendNames], has_map \in [1..k -> BOOLEAN] }
            : k \in 0..MaxBackends }

TargetWorlds ==
    { [heap |-> << MkBackend(1, "fake_melbourne", 71, t) >>, provider |-> << 1 >>]
        : t \in Targets }

CallInit ==
    /\ fn = "idle"
    /\ arg_name = "" /\ arg_backend = None /\ arg_shots = None
    /\ arg_draw_raises = FALSE
    /\ ret = Unbound

ScriptInit ==
    /\ pc = "L190"
    /\ fake_provider = None /\ fake_backends = Unbound
    /\ fake_Melbourne = None /\ fake_Armonk = None
    /\ Melbourne_info = Unbound /\ Armonk_info = Unbound
    /\ qc = Unbound /\ ibm_quantum_service = None /\ simulator = None
    /\ ideal_options = Unbound /\ noisy_options = Unbound
    /\ session = None /\ sampler = Unbound /\ tqc = Unbound
    /\ job = Unbound /\ result = Unbound
    /\ sessions = [r \in 1..2 |-> "unopened"]
    /\ submitted = <<>>
    /\ stdout = <<>>
    /\ error = <<>>
    /\ log = <<>>

\* ------------------------------------------------------------------------
\* The helper functions called on their own
\* ------------------------------------------------------------------------
InitFn ==
    /\ \E w \in ProviderWorlds \cup TargetWorlds :
          heap = w.heap /\ provider = w.provider
    /\ CallInit
    /\ ScriptInit

Call_search_backend ==
    \E name \in BackendNames :
        /\ fn' = "search_backend"
        /\ arg_name' = name /\ arg_backend' = None /\ arg_shots' = None
        /\ arg_draw_raises' = FALSE
        /\ ret' = search_backend_run(heap, provider, name)
        /\ UNCHANGED <<worldVars, scriptVars>>

Call_get_backend_info ==
    \E backend \in DOMAIN heap \cup {None} :
        /\ fn' = "get_backend_info"
        /\ arg_name' = "" /\ arg_backend' = backend /\ arg_shots' = None
        /\ arg_draw_raises' = FALSE
        /\ ret' = get_backend_info(heap, backend)
        /\ UNCHANGED <<worldVars, scriptVars>>

Call_print_backend_info ==
    \E backend \in DOMAIN heap, draw_raises \in BOOLEAN :
        /\ fn' = "print_backend_info"
        /\ arg_name' = "" /\ arg_backend' = backend /\ arg_shots' = None
        /\ arg_draw_raises' = draw_raises
        /\ ret' = print_backend_info(get_backend_info(heap, backend).value, draw_raises)
        /\ UNCHANGED <<worldVars, scriptVars>>

Call_get_gate_errors ==
    \E backend \in DOMAIN heap :
        /\ fn' = "get_gate_errors"
        /\ arg_name' = "" /\ arg_backend' = backend /\ arg_shots' = None
        /\ arg_draw_raises' = FALSE
        /\ ret' = get_gate_errors(heap, backend)
        /\ UNCHANGED <<worldVars, scriptVars>>

Call_create_options ==
    \E shots \in ShotCounts, backend \in DOMAIN heap \cup {None} :
        /\ fn' = "create_options"
        /\ arg_name' = "" /\ arg_backend' = backend /\ arg_shots' = shots
        /\ arg_draw_raises' = FALSE
        /\ ret' = create_options(heap, shots, backend)
        /\ UNCHANGED <<worldVars, scriptVars>>

NextFn ==
    \/ Call_search_backend
    \/ Call_get_backend_info
    \/ Call_print_backend_info
    \/ Call_get_gate_errors
    \/ Call_create_options

SpecFn == InitFn /\ [][NextFn]_vars

\* ------------------------------------------------------------------------
\* The script
\* ------------------------------------------------------------------------
IdealBlock == {"L248", "L250", "L251", "L252", "L254"}
NoisyBlock == {"L263", "L265", "L266", "L267", "L269"}

\* Statements that call into the SDK, each of which may raise before it has
\* any effect on the script's variables.  print(result) calls the result's
\* __str__.  The draw() call inside print_backend_info (lines 206 and 210) and
\* the exit of a with block are handled apart, in S206, S210 and ExitSession.
SDKCalls ==
    {"L190", "L194", "L198", "L199", "L205", "L209", "L221", "L222", "L223",
     "L224", "L226", "L229", "L236", "L241", "L242", "L247", "L262"}
        \cup IdealBlock \cup NoisyBlock

\* The two `with Session(...)` blocks, lines 247-254 and 262-269.
Block(r) ==
    IF r = 1
    THEN [open |-> "L247", sampler |-> "L248", transpile |-> "L250", run |-> "L251",
          result |-> "L252", print |-> "L254", exit |-> "L254x", after |-> "L261"]
    ELSE [open |-> "L262", sampler |-> "L263", transpile |-> "L265", run |-> "L266",
          result |-> "L267", print |-> "L269", exit |-> "L269x", after |-> "done"]

EnclosingSession(at) ==
    IF at \in IdealBlock THEN 1 ELSE IF at \in NoisyBlock THEN 2 ELSE None

\* Leaving a `with Session(...)` block, normally or by an exception, closes it.
Unwind_leak(s, at) == s

Unwind(s, at) ==
    IF EnclosingSession(at) # None
    THEN [s EXCEPT ![EnclosingSession(at)] = "closed"]
    ELSE s

Executed(at) == \E i \in 1..Len(log) : log[i] = [ev |-> "stmt", at |-> at]

Step(at, next) ==
    /\ pc = at
    /\ error = <<>>
    /\ pc' = next
    /\ log' = Append(log, [ev |-> "stmt", at |-> at])
    /\ UNCHANGED <<worldVars, callVars, error>>

\* An exception leaves statement `at`.  Inside a with block the session's
\* __exit__ runs on the way out: either it closes the session and the exception
\* goes on, or __exit__ raises itself, the session stays as it was and that
\* exception (reported at the with statement) goes on instead.
Raise(at, kind) ==
    /\ pc = at
    /\ error = <<>>
    /\ pc' = "failed"
    /\ \/ /\ error' = <<kind, at>>
          /\ sessions' = Unwind(sessions, at)
          /\ log' = Append(log, [ev |-> "raise", at |-> at])
       \/ /\ EnclosingSession(at) # None
          /\ error' = << "SDKError", Block(EnclosingSession(at)).open >>
          /\ sessions' = sessions
          /\ log' = log \o << [ev |-> "raise", at |-> at],
                              [ev |-> "raise", at |-> Block(EnclosingSession(at)).exit] >>
    /\ UNCHANGED <<worldVars, callVars, submitted>>

\* A statement that raises before assigning or printing anything.
RaiseBefore(at, kind) ==
    /\ Raise(at, kind)
    /\ UNCHANGED <<fake_provider, fake_backends, fake_Melbourne,
                   fake_Armonk, Melbourne_info, Armonk_info, qc, ibm_quantum_service,
                   simulator, ideal_options, noisy_options, session, sampler, tqc,
                   job, result, stdout>>

\* An attribute read on None raises before the SDK is reached.
ReadsNone(at) ==
    \/ at = "L205" /\ fake_Melbourne = None
    \/ at = "L209" /\ fake_Armonk = None

SDKRaise ==
    \E at \in SDKCalls :
        /\ ~ReadsNone(at)
        /\ RaiseBefore(at, "SDKError")

S190 ==
    /\ Step("L190", "L194")
    /\ fake_provider' = 1
    /\ UNCHANGED <<fake_backends, fake_Melbourne, fake_Armonk, Melbourne_info,
                   Armonk_info, qc, ibm_quantum_service, simulator, ideal_options,
                   noisy_options, session, sampler, tqc, job, result, sessions,
                   submitted, stdout>>

S194 ==
    /\ Step("L194", "L198")
    /\ fake_backends' = provider
    /\ UNCHANGED <<fake_provider, fake_Melbourne, fake_Armonk, Melbourne_info,
                   Armonk_info, qc, ibm_quantum_service, simulator, ideal_options,
                   noisy_options, session, sampler, tqc, job, result, sessions,
                   submitted, stdout>>

S198 ==
    /\ Step("L198", "L199")
    /\ fake_Melbourne' = search_backend(heap, provider, "fake_melbourne")
    /\ UNCHANGED <<fake_provider, fake_backends, fake_Armonk, Melbourne_info,
                   Armonk_info, qc, ibm_quantum_service, simulator, ideal_options,
                   noisy_options, session, sampler, tqc, job, result, sessions,
                   submitted, stdout>>

S199 ==
    /\ Step("L199", "L203")
    /\ fake_Armonk' = search_backend(heap, provider, "fake_armonk")
    /\ UNCHANGED <<fake_provider, fake_backends, fake_Melbourne, Melbourne_info,
                   Armonk_info, qc, ibm_quantum_service, simulator, ideal_options,
                   noisy_options, session, sampler, tqc, job, result, sessions,
                   submitted, stdout>>

\* print(...) of a literal: lines 203, 218, 246 and 261.
Banner(at) ==
    CASE at = "L203" -> << ">> Information about different backends" >>
      [] at = "L218" -> << "\n SIMULATIONS" >>
      [] at = "L246" -> << ">> Running experiments on ideal backend..." >>
      [] at = "L261" -> << ">> Running experiments on noisy backend..." >>

AfterBanner(at) ==
    CASE at = "L203" -> "L205"
      [] at = "L218" -> "L221"
      [] at = "L246" -> "L247"
      [] at = "L261" -> "L262"

PrintBanner ==
    \E at \in {"L203", "L218", "L246", "L261"} :
        /\ Step(at, AfterBanner(at))
        /\ stdout' = Append(stdout, Banner(at))
        /\ UNCHANGED <<fake_provider, fake_backends, fake_Melbourne, fake_Armonk,
                       Melbourne_info, Armonk_info, qc, ibm_quantum_service,
                       simulator, ideal_options, noisy_options, session, sampler,
                       tqc, job, result, sessions, submitted>>

S205 ==
    LET r == get_backend_info(heap, fake_Melbourne)
    IN \/ /\ r.raised
          /\ RaiseBefore("L205", "AttributeError")
       \/ /\ ~r.raised
          /\ Step("L205", "L206")
          /\ Melbourne_info' = r.value
          /\ UNCHANGED <<fake_provider, fake_backends, fake_Melbourne, fake_Armonk,
                         Armonk_info, qc, ibm_quantum_service, simulator,
                         ideal_options, noisy_options, session, sampler, tqc, job,
                         result, sessions, submitted, stdout>>

S206 ==
    \E draw_raises \in BOOLEAN :
        LET r == print_backend_info(Melbourne_info, draw_raises)
        IN /\ pc = "L206"
           /\ stdout' = stdout \o r.lines
           /\ IF r.raised = ""
              THEN Step("L206", "L209") /\ UNCHANGED <<sessions, submitted>>
              ELSE Raise("L206", r.raised)
           /\ UNCHANGED <<fake_provider, fake_backends, fake_Melbourne, fake_Armonk,
                          Melbourne_info, Armonk_info, qc, ibm_quantum_service,
                          simulator, ideal_options, noisy_options, session, sampler,
                          tqc, job, result>>

S209 ==
    LET r == get_backend_info(heap, fake_Armonk)
    IN \/ /\ r.raised
          /\ RaiseBefore("L209", "AttributeError")
       \/ /\ ~r.raised
          /\ Step("L209", "L210")
          /\ Armonk_info' = r.value
          /\ UNCHANGED <<fake_provider, fake_backends, fake_Melbourne, fake_Armonk,
                         Melbourne_info, qc, ibm_quantum_service, simulator,
                         ideal_options, noisy_options, session, sampler, tqc, job,
                         result, sessions, submitted, stdout>>

S210 ==
    \E draw_raises \in BOOLEAN :
        LET r == print_backend_info(Armonk_info, draw_raises)
        IN /\ pc = "L210"
           /\ stdout' = stdout \o r.lines
           /\ IF r.raised = ""
              THEN Step("L210", "L218") /\ UNCHANGED <<sessions, submitted>>
              ELSE Raise("L210", r.raised)
           /\ UNCHANGED <<fake_provider, fake_backends, fake_Melbourne, fake_Armonk,
                          Melbourne_info, Armonk_info, qc, ibm_quantum_service,
                          simulator, ideal_options, noisy_options, session, sampler,
                          tqc, job, result>>

\* Lines 221-226: the fixed two-qubit circuit, one gate per statement.
CircuitStep(at) ==
    CASE at = "L221" -> [next |-> "L222", qc |-> <<>>]
      [] at = "L222" -> [next |-> "L223", qc |-> Append(qc, "h 0")]
      [] at = "L223" -> [next |-> "L224", qc |-> Append(qc, "x 1")]
      [] at = "L224" -> [next |-> "L226", qc |-> Append(qc, "cx 0 1")]
      [] at = "L226" -> [next |-> "L229", qc |-> Append(qc, "measure_all")]

BuildCircuit ==
    \E at \in {"L221", "L222", "L223", "L224", "L226"} :
        /\ Step(at, CircuitStep(at).next)
        /\ qc' = CircuitStep(at).qc
        /\ UNCHANGED <<fake_provider, fake_backends, fake_Melbourne, fake_Armonk,
                       Melbourne_info, Armonk_info, ibm_quantum_service, simulator,
                       ideal_options, noisy_options, session, sampler, tqc, job,
                       result, sessions, submitted, stdout>>

S229 ==
    /\ Step("L229", "L236")
    /\ ibm_quantum_service' = 1
    /\ UNCHANGED <<fake_provider, fake_backends, fake_Melbourne, fake_Armonk,
                   Melbourne_info, Armonk_info, qc, simulator, ideal_options,
                   noisy_options, session, sampler, tqc, job, result, sessions,
                   submitted, stdout>>

S236 ==
    /\ Step("L236", "L241")
    /\ simulator' = 2
    /\ UNCHANGED <<fake_provider, fake_backends, fake_Melbourne, fake_Armonk,
                   Melbourne_info, Armonk_info, qc, ibm_quantum_service,
                   ideal_options, noisy_options, session, sampler, tqc, job, result,
                   sessions, submitted, stdout>>

S241 ==
    /\ Step("L241", "L242")
    /\ ideal_options' = create_options(heap, nb_shots, None)
    /\ UNCHANGED <<fake_provider, fake_backends, fake_Melbourne, fake_Armonk,
                   Melbourne_info, Armonk_info, qc, ibm_quantum_service, simulator,
                   noisy_options, session, sampler, tqc, job, result, sessions,
                   submitted, stdout>>

S242 ==
    /\ Step("L242", "L246")
    /\ noisy_options' = create_options(heap, nb_shots, fake_Melbourne)
    /\ UNCHANGED <<fake_provider, fake_backends, fake_Melbourne, fake_Armonk,
                   Melbourne_info, Armonk_info, qc, ibm_quantum_service, simulator,
                   ideal_options, session, sampler, tqc, job, result, sessions,
                   submitted, stdout>>

BlockOptions_ideal_twice(r) == ideal_options

BlockOptions(r) == IF r = 1 THEN ideal_options ELSE noisy_options

OpenSession ==
    \E r \in 1..2 :
        /\ Step(Block(r).open, Block(r).sampler)
        /\ sessions' = [sessions EXCEPT ![r] = "open"]
        /\ session' = r
        /\ UNCHANGED <<fake_provider, fake_backends, fake_Melbourne, fake_Armonk,
                       Melbourne_info, Armonk_info, qc, ibm_quantum_service,
                       simulator, ideal_options, noisy_options, sampler, tqc, job,
                       result, submitted, stdout>>

CreateSampler ==
    \E r \in 1..2 :
        /\ Step(Block(r).sampler, Block(r).transpile)
        /\ sampler' = [session |-> session, options |-> BlockOptions(r)]
        /\ UNCHANGED <<fake_provider, fake_backends, fake_Melbourne, fake_Armonk,
                       Melbourne_info, Armonk_info, qc, ibm_quantum_service,
                       simulator, ideal_options, noisy_options, session, tqc, job,
                       result, sessions, submitted, stdout>>

Transpile ==
    \E r \in 1..2 :
        /\ Step(Block(r).transpile, Block(r).run)
        /\ tqc' = [circuit |-> qc, backend |-> simulator]
        /\ UNCHANGED <<fake_provider, fake_backends, fake_Melbourne, fake_Armonk,
                       Melbourne_info, Armonk_info, qc, ibm_quantum_service,
                       simulator, ideal_options, noisy_options, session, sampler,
                       job, result, sessions, submitted, stdout>>

SubmitJob ==
    \E r \in 1..2 :
        /\ Step(Block(r).run, Block(r).result)
        /\ job' = [sampler |-> sampler, circuit |-> tqc]
        /\ submitted' = Append(submitted, [sampler |-> sampler, circuit |-> tqc])
        /\ UNCHANGED <<fake_provider, fake_backends, fake_Melbourne, fake_Armonk,
                       Melbourne_info, Armonk_info, qc, ibm_quantum_service,
                       simulator, ideal_options, noisy_options, session, sampler,
                       tqc, result, sessions, stdout>>

ObtainResult ==
    \E r \in 1..2 :
        /\ Step(Block(r).result, Block(r).print)
        /\ result' = [job |-> job]
        /\ UNCHANGED <<fake_provider, fake_backends, fake_Melbourne, fake_Armonk,
                       Melbourne_info, Armonk_info, qc, ibm_quantum_service,
                       simulator, ideal_options, noisy_options, session, sampler,
                       tqc, job, sessions, submitted, stdout>>

PrintResult ==
    \E r \in 1..2 :
        /\ Step(Block(r).print, Block(r).exit)
        /\ stdout' = Append(stdout,
               << "result of the job of session ", PyStr(result.job.sampler.session) >>)
        /\ UNCHANGED <<fake_provider, fake_backends, fake_Melbourne, fake_Armonk,
                       Melbourne_info, Armonk_info, qc, ibm_quantum_service,
                       simulator, ideal_options, noisy_options, session, sampler,
                       tqc, job, result, sessions, submitted>>

\* Normal exit of a with block: __exit__ closes the session, or raises and
\* leaves it open.
ExitSession ==
    \E r \in 1..2 :
        /\ \/ /\ Step(Block(r).exit, Block(r).after)
              /\ sessions' = Unwind(sessions, Block(r).print)
           \/ /\ pc = Block(r).exit
              /\ error = <<>>
              /\ pc' = "failed"
              /\ error' = << "SDKError", Block(r).open >>
              /\ sessions' = sessions
              /\ log' = Append(log, [ev |-> "raise", at |-> Block(r).exit])
              /\ UNCHANGED <<worldVars, callVars>>
        /\ UNCHANGED <<fake_provider, fake_backends, fake_Melbourne, fake_Armonk,
                       Melbourne_info, Armonk_info, qc, ibm_quantum_service,
                       simulator, ideal_options, noisy_options, session, sampler,
                       tqc, job, result, submitted, stdout>>

Init ==
    /\ \E w \in ProviderWorlds : heap = w.heap /\ provider = w.provider
    /\ CallInit
    /\ ScriptInit

Next ==
    \/ S190 \/ S194 \/ S198 \/ S199
    \/ PrintBanner
    \/ S205 \/ S206 \/ S209 \/ S210
    \/ BuildCircuit \/ S229 \/ S236 \/ S241 \/ S242
    \/ OpenSession \/ CreateSampler \/ Transpile \/ SubmitJob
    \/ ObtainResult \/ PrintResult \/ ExitSession
    \/ SDKRaise

Spec == Init /\ [][Next]_vars

\* ------------------------------------------------------------------------
\* Properties of the helper functions (checked under SpecFn)
\* ------------------------------------------------------------------------
Matches(name) == { i \in 1..Len(provider) : heap[provider[i]].name = name }

\* C1: search_backend returns a backend of the provider's list whose name is the
\* searched name when one exists, None otherwise, and never a backend with
\* another name.
C1_SearchReturnsMatchOrNone ==
    fn = "search_backend" =>
        LET r == ret.searched_backend
        IN /\ Matches(arg_name) # {} => r \in { provider[i] : i \in Matches(arg_name) }
           /\ Matches(arg_name) = {} => r = None
           /\ r # None => /\ \E i \in 1..Len(provider) : provider[i] = r
                          /\ heap[r].name = arg_name

C1_Witness ==
    /\ fn = "search_backend"
    /\ ret.searched_backend # None
    /\ heap[ret.searched_backend].name = arg_name
    /\ \E i \in 1..Len(provider) : heap[provider[i]].name # arg_name

\* C2: create_options leaves the simulator settings empty when backend is None,
\* and otherwise sets them to the backend's noise model, operation_names and
\* coupling_map.
C2_SimulatorIffBackend ==
    fn = "create_options" =>
        /\ arg_backend = None =>
              /\ ret.simulator.noise_model = None
              /\ ret.simulator.basis_gates = None
              /\ ret.simulator.coupling_map = None
        /\ arg_backend # None =>
              /\ ret.simulator =
                    [noise_model  |-> NoiseModel_from_backend(heap[arg_backend]),
                     basis_gates  |-> heap[arg_backend].operation_names,
                     coupling_map |-> heap[arg_backend].coupling_map]
              /\ ret.simulator.noise_model # None

C2_Witness ==
    /\ fn = "create_options"
    /\ arg_backend # None
    /\ ret.simulator.noise_model = NoiseModel_from_backend(heap[arg_backend])
    /\ ret.simulator.noise_model # None

\* C3: whatever the backend argument, the options have execution.shots equal to
\* nb_shots and optimization_level and resilience_level equal to 0.
C3_ShotsAndLevels ==
    fn = "create_options" =>
        /\ ret.execution.shots = arg_shots
        /\ ret.optimization_level = 0
        /\ ret.resilience_level = 0

C3_Witness ==
    /\ fn = "create_options"
    /\ arg_backend # None
    /\ arg_shots = 1
    /\ ret.execution.shots = 1
    /\ ret.resilience_level = 0

\* C4: get_gate_errors returns, for exactly the gates of the target and exactly
\* the qubit tuples of each gate, the error of the entry, or None when the
\* entry is None.
C4_GateErrorsMirrorTarget ==
    fn = "get_gate_errors" =>
        LET target == heap[arg_backend].target
        IN /\ DictKeys(ret) = DictKeys(target)
           /\ \A i \in 1..Len(target) :
                 /\ DictKeys(ret[i].val) = DictKeys(target[i].val)
                 /\ \A j \in 1..Len(target[i].val) :
                       ret[i].val[j].val =
                           IF target[i].val[j].val = NoProps
                           THEN None
                           ELSE target[i].val[j].val[2]

C4_Witness ==
    /\ fn = "get_gate_errors"
    /\ Len(ret) = 2
    /\ \E i \in 1..2 : \E j \in 1..Len(ret[i].val) :
          /\ heap[arg_backend].target[i].val[j].val = InstructionProperties(5, 7)
          /\ ret[i].val[j].val = 7
    /\ \E i \in 1..2 : \E j \in 1..Len(ret[i].val) :
          /\ heap[arg_backend].target[i].val[j].val = NoProps
          /\ ret[i].val[j].val = None

InfoKeys ==
    {"name", "version", "online_date", "syst_time_resolution_input_signals",
     "syst_time_resolution_output_signals", "max_circuits_per_job", "num_qubits",
     "coupling_map", "operation_names", "instruction_durations",
     "instruction_schedule_map", "target"}

C7_InfoState ==
    (fn = "get_backend_info" /\ arg_backend # None) =>
        LET backend == heap[arg_backend]
            info == ret.value
        IN /\ ~ret.raised
           /\ DOMAIN info = InfoKeys
           /\ Cardinality(DOMAIN info) = 12
           /\ info.name = backend.name
           /\ info.version = backend.backend_version
           /\ info.online_date = backend.online_date
           /\ info.syst_time_resolution_input_signals = backend.dt
           /\ info.syst_time_resolution_output_signals = backend.dtm
           /\ info.max_circuits_per_job = backend.max_circuits
           /\ info.num_qubits = backend.num_qubits
           /\ info.coupling_map = backend.coupling_map
           /\ info.operation_names = backend.operation_names
           /\ info.instruction_durations = backend.instruction_durations
           /\ info.instruction_schedule_map = backend.instruction_schedule_map
           /\ info.target = backend.target

\* C7: get_backend_info returns a dictionary with exactly the twelve keys, each
\* holding the corresponding attribute of the backend, and the call leaves the
\* backend unchanged.
C7_InfoMirrorsBackend ==
    /\ []C7_InfoState
    /\ [][fn' = "get_backend_info" => heap' = heap]_vars

C7_Witness ==
    /\ fn = "get_backend_info"
    /\ arg_backend # None
    /\ ~ret.raised
    /\ ret.value.name = heap[arg_backend].name
    /\ ret.value.syst_time_resolution_output_signals = heap[arg_backend].dtm

LastMatch(name) ==
    IF Matches(name) = {}
    THEN None
    ELSE provider[CHOOSE i \in Matches(name) : \A j \in Matches(name) : j <= i]

C8_SearchState ==
    fn = "search_backend" =>
        /\ ret.examined = provider
        /\ ret.searched_backend = LastMatch(arg_name)

\* C8: search_backend examines every backend of the list once, in order, returns
\* the last backend with the searched name, and modifies neither the provider
\* nor any backend.
C8_SearchFullPassLastMatch ==
    /\ []C8_SearchState
    /\ [][fn' = "search_backend" => (heap' = heap /\ provider' = provider)]_vars

C8_Witness ==
    /\ fn = "search_backend"
    /\ Cardinality(Matches(arg_name)) >= 2
    /\ ret.searched_backend = LastMatch(arg_name)
    /\ \E i \in Matches(arg_name) : provider[i] # ret.searched_backend
    /\ Len(ret.examined) = Len(provider)

RECURSIVE TargetEntries(_, _)
TargetEntries(t, i) ==
    IF i > Len(t) THEN <<>>
    ELSE << [isGate |-> TRUE, gate |-> t[i].key, qbits |-> <<>>, props |-> NoProps] >>
         \o [j \in 1..Len(t[i].val) |->
                [isGate |-> FALSE, gate |-> t[i].key,
                 qbits |-> t[i].val[j].key, props |-> t[i].val[j].val]]
         \o TargetEntries(t, i + 1)

TargetLineAt(lines) == CHOOSE k \in 1..Len(lines) : lines[k] = << "Target:" >>

TargetLinesAgree(lines) ==
    LET errs == get_gate_errors(heap, arg_backend)
        e == TargetEntries(heap[arg_backend].target, 1)
        body == SubSeq(lines, TargetLineAt(lines) + 1, Len(lines))
    IN /\ \E k \in 1..Len(lines) : lines[k] = << "Target:" >>
       /\ Len(body) = Len(e)
       /\ \A k \in 1..Len(e) :
             IF e[k].isGate
             THEN body[k] = << "\t", e[k].gate >>
             ELSE /\ Len(body[k]) = 6
                  /\ body[k][2] = PyStrQubits(e[k].qbits)
                  /\ body[k][6] = PyStr(DictGet(DictGet(errs, e[k].gate), e[k].qbits))
                  /\ e[k].props = NoProps =>
                        (body[k][4] = "None" /\ body[k][6] = "None")

\* C10 as stated: print_backend_info prints, for every gate of the target
\* in order, the gate line and then one line per qubit tuple in order, with
\* the error get_gate_errors gives, and does not raise.
C10_Original ==
    fn = "print_backend_info" =>
        /\ ret.raised = ""
        /\ TargetLinesAgree(ret.lines)

\* C10 (amended): when coupling_map.draw() at line 96 returns,
\* print_backend_info prints after the "Target:" line, for every gate in
\* order, the gate line and then one line per qubit tuple in order; the error
\* on that line is the one get_gate_errors gives, and a None entry is printed
\* as duration=None, error=None.  When the coupling map is None or draw()
\* raises, the exception leaves print_backend_info after the "Coupling map:"
\* line and no line of the target is printed.
C10_PrintAgreesWithGateErrors ==
    fn = "print_backend_info" =>
        LET coupling_map == heap[arg_backend].coupling_map
        IN /\ ret.raised = "" <=> (coupling_map # None /\ ~arg_draw_raises)
           /\ ret.raised = "AttributeError" <=> coupling_map = None
           /\ ret.raised = "" => TargetLinesAgree(ret.lines)
           /\ ret.raised # "" =>
                 /\ ret.lines[Len(ret.lines)] = << "Coupling map:" >>
                 /\ \A k \in 1..Len(ret.lines) :
                       /\ ret.lines[k] # << "Target:" >>
                       /\ ret.lines[k][1] \notin {"\t", "\t\tQubit(s) "}

C10_Witness ==
    /\ fn = "print_backend_info"
    /\ ret.raised = ""
    /\ Len(heap[arg_backend].target) = 2
    /\ Len(ret.lines) = TargetLineAt(ret.lines) + 2 + 2
    /\ \E k \in 1..Len(ret.lines) : Len(ret.lines[k]) = 6 /\ ret.lines[k][6] = "7"
    /\ \E k \in 1..Len(ret.lines) :
          /\ Len(ret.lines[k]) = 6
          /\ ret.lines[k][4] = "None" /\ ret.lines[k][6] = "None"

\* ------------------------------------------------------------------------
\* Properties of the script (checked under Spec)
\* ------------------------------------------------------------------------
SessionOrder ==
    << "L247", "L248", "L251", "L252", "L254", "L254x",
       "L262", "L263", "L266", "L267", "L269", "L269x" >>

SessionSteps == { SessionOrder[i] : i \in 1..Len(SessionOrder) }

RECURSIVE SessionTrace(_)
SessionTrace(l) ==
    IF l = <<>> THEN <<>>
    ELSE IF Head(l).ev = "stmt" /\ Head(l).at \in SessionSteps
         THEN << Head(l).at >> \o SessionTrace(Tail(l))
         ELSE SessionTrace(Tail(l))

IsPrefix(a, b) == Len(a) <= Len(b) /\ a = SubSeq(b, 1, Len(a))

\* C5: the script runs the fixed circuit first in a session with the options
\* built without a backend, then in a second session with the options built
\* from the looked-up backend; in each session the order is open, sampler,
\* submit, result, print; the first session is closed before the second is
\* opened, at most one session is open, and both runs use the same shot count.
C5_IdealThenNoisy ==
    /\ IsPrefix(SessionTrace(log), SessionOrder)
    /\ pc = "done" => SessionTrace(log) = SessionOrder /\ Len(submitted) = 2
    /\ Cardinality({ r \in 1..2 : sessions[r] = "open" }) <= 1
    /\ sessions[2] # "unopened" => sessions[1] = "closed"
    /\ \A r \in 1..2 :
          /\ sessions[r] = "open" => (Executed(Block(r).open) /\ ~Executed(Block(r).exit))
          /\ sessions[r] = "unopened" <=> ~Executed(Block(r).open)
          /\ Executed(Block(r).exit) => sessions[r] = "closed"
    /\ Len(submitted) <= 2
    /\ Len(submitted) >= 1 =>
          /\ Executed("L251")
          /\ submitted[1].sampler.session = 1
          /\ submitted[1].sampler.options.simulator.noise_model = None
          /\ submitted[1].sampler.options.simulator.basis_gates = None
          /\ submitted[1].sampler.options.simulator.coupling_map = None
          /\ submitted[1].sampler.options.execution.shots = nb_shots
          /\ submitted[1].circuit.circuit = << "h 0", "x 1", "cx 0 1", "measure_all" >>
    /\ Len(submitted) = 2 =>
          /\ Executed("L266")
          /\ submitted[2].sampler.session = 2
          /\ submitted[2].sampler.options.simulator =
                [noise_model  |-> NoiseModel_from_backend(heap[fake_Melbourne]),
                 basis_gates  |-> heap[fake_Melbourne].operation_names,
                 coupling_map |-> heap[fake_Melbourne].coupling_map]
          /\ submitted[2].sampler.options.execution.shots =
                submitted[1].sampler.options.execution.shots
          /\ submitted[2].circuit = submitted[1].circuit

C5_Witness ==
    /\ pc = "done"
    /\ Len(submitted) = 2
    /\ sessions = [r \in 1..2 |-> "closed"]
    /\ submitted[2].sampler.options.simulator.noise_model # None

Raised(at) == \E i \in 1..Len(log) : log[i] = [ev |-> "raise", at |-> at]

ExitRaised(r) == Raised(Block(r).exit)

\* The statements before the second with statement (line 262).
PreNoisy ==
    {"L190", "L194", "L198", "L199", "L205", "L206", "L209", "L210", "L221",
     "L222", "L223", "L224", "L226", "L229", "L236", "L241", "L242", "L247",
     "L254x"} \cup IdealBlock

NothingAfterFailure ==
    error # <<>> =>
        /\ pc = "failed"
        /\ log[Len(log)].ev = "raise"
        /\ \A i \in 1..Len(log) : \A j \in i + 1..Len(log) :
              log[i].ev = "raise" => log[j].ev = "raise"
        /\ (\E at \in PreNoisy : Raised(at)) =>
              /\ sessions[2] = "unopened"
              /\ ~Executed("L262")
              /\ \A i \in 1..Len(submitted) : submitted[i].sampler.session # 2

\* C6 as stated: after an exception the script has stopped, nothing later
\* has run, and the session that was open is closed.
C6_Original ==
    /\ NothingAfterFailure
    /\ error # <<>> => \A r \in 1..2 : sessions[r] # "open"

C6_FailedState ==
    /\ NothingAfterFailure
    /\ error # <<>> =>
          \A r \in 1..2 :
              /\ sessions[r] = "open" => ExitRaised(r)
              /\ (Executed(Block(r).open) /\ ~ExitRaised(r)) => sessions[r] = "closed"
              /\ ExitRaised(r) => error = << "SDKError", Block(r).open >>

\* C6 (amended): an exception raised by any step is not caught: the script
\* stops there and nothing later runs (after a failure in the ideal run the
\* noisy session is never opened and no noisy job is submitted); the with
\* block runs the exit of the session open at that moment, which closes it
\* unless that exit itself raises, and then the exit's exception propagates
\* and the session is left open.
C6_ErrorsPropagate ==
    /\ []C6_FailedState
    /\ [][error # <<>> => UNCHANGED vars]_vars

C6_Witness ==
    /\ pc = "failed"
    /\ error = << "SDKError", "L252" >>
    /\ sessions[1] = "closed"
    /\ sessions[2] = "unopened"
    /\ Len(submitted) = 1

\* C9: when a lookup returned None the script fails at get_backend_info before
\* any cloud service, session or job exists, so the noisy run is never made
\* with noiseless options.
C9_NoneLookupFailsEarly ==
    /\ (Executed("L199") /\ (fake_Melbourne = None \/ fake_Armonk = None)) =>
          /\ pc \in {"L203", "L205", "L206", "L209", "failed"}
          /\ ibm_quantum_service = None
          /\ simulator = None
          /\ sessions = [r \in 1..2 |-> "unopened"]
          /\ submitted = <<>>
          /\ pc = "failed" => error[2] \in {"L205", "L206", "L209"}
          /\ (pc = "failed" /\ fake_Melbourne = None) =>
                error = << "AttributeError", "L205" >>
          /\ (pc = "failed" /\ fake_Melbourne # None /\ error[1] # "SDKError") =>
                \/ error = << "AttributeError", "L209" >>
                \/ /\ error = << "AttributeError", "L206" >>
                   /\ heap[fake_Melbourne].coupling_map = None
    /\ \A i \in 1..Len(submitted) :
          submitted[i].sampler.session = 2 =>
              submitted[i].sampler.options.simulator.noise_model # None

C9_Witness ==
    /\ pc = "failed"
    /\ fake_Melbourne = None
    /\ error = << "AttributeError", "L205" >>
    /\ ibm_quantum_service = None
    /\ submitted = <<>>

====
